---- MODULE Spec2Model ----
(***************************************************************************)
(* A model of gmusicapi/utils/utils.py: the retry decorator (retry and its *)
(* retry_wrapper), truncate and pb_set.                                    *)
(***************************************************************************)
EXTENDS Integers, Sequences, FiniteSets

\* ------------------------------------------------------------------ bounds

\* tries is drawn from (0 - NonPosTries) .. MaxTries
MaxTries == 3
NonPosTries == 1
\* delay is drawn from 0 .. MaxDelay, backoff from 1 .. MaxBackoff
MaxDelay == 1
MaxBackoff == 2
\* calls of the wrapped function made one after the other by one caller
MaxCalls == 2
\* callers running the same wrapped function at once (ConcSpec)
NumThreads == 2
\* truncate: strings, lists, tuples and dicts of at most MaxLen elements,
\* max_els in 0 .. MaxEls, recurse_levels in 0 .. MaxRecurse
MaxLen == 3
MaxEls == 3
MaxRecurse == 2

\* ------------------------------------------------------------------ state

VARIABLES
    tries, delay, backoff, retry_exception,  \* arguments of retry(), closed over by retry_wrapper
    f_outcomes,     \* what one invocation of the wrapped function f can do
    threads,        \* the callers of the wrapped function
    pc,             \* per caller: position in retry_wrapper
    mtries, mdelay, \* per caller: retry_wrapper's locals
    e,              \* per caller: the exception bound by "except ... as e"
    events,         \* per caller: what the current call did so far (invocations of f, log entries, sleeps)
    outcome,        \* per caller: what the current call handed to its caller
    calls,          \* per caller: calls started
    t_x, t_max_els, t_recurse_levels,  \* arguments of a call of truncate
    t_pc, t_result, \* whether that call returned, and what
    pb_val,         \* pb_set: the argument val
    pb_cpp_type,    \* pb_set: field_desc.cpp_type of the field named field_name
    pb_field,       \* pb_set: the value of msg's field
    pb_entry,       \* pb_set: the value msg's field had when pb_set was called
    pb_pc,          \* pb_set: position in pb_set
    pb_i,           \* pb_set: index in try_types of the next type to try
    pb_attempts,    \* pb_set: the types tried so far, and how each attempt ended
    pb_ret          \* pb_set: the value returned

retry_vars == <<tries, delay, backoff, retry_exception, f_outcomes, threads,
                pc, mtries, mdelay, e, events, outcome, calls>>

truncate_vars == <<t_x, t_max_els, t_recurse_levels, t_pc, t_result>>

pb_vars == <<pb_val, pb_cpp_type, pb_field, pb_entry, pb_pc, pb_i, pb_attempts, pb_ret>>

vars == <<retry_vars, truncate_vars, pb_vars>>

\* ------------------------------------------------------------- truncate

\* A Python value: type is "str", "list", "tuple", "dict", "int" or
\* "NoneType".  A str holds its characters in chars; a list or tuple its
\* elements in elems; a dict its keys in keys and, at the same positions,
\* its values in elems, in the order x.items() lists them.
Str(cs) == [type |-> "str", chars |-> cs, keys |-> <<>>, elems |-> <<>>]
List(es) == [type |-> "list", chars |-> <<>>, keys |-> <<>>, elems |-> es]
Tuple(es) == [type |-> "tuple", chars |-> <<>>, keys |-> <<>>, elems |-> es]
Dict(ks, vs) == [type |-> "dict", chars |-> <<>>, keys |-> ks, elems |-> vs]
IntV == [type |-> "int", chars |-> <<>>, keys |-> <<>>, elems |-> <<>>]
None == [type |-> "NoneType", chars |-> <<>>, keys |-> <<>>, elems |-> <<>>]

\* the literal '...'
Ellipsis == Str(<<".", ".", ".">>)

\* which values have a len(); len(x) of the others raises TypeError
HasLen(x) == x.type \in {"str", "list", "tuple", "dict"}
PyLen(x) == IF x.type = "str" THEN Len(x.chars) ELSE Len(x.elems)

\* s[:n] of a sequence
Slice(s, n) ==
    IF n >= 0
    THEN SubSeq(s, 1, IF n < Len(s) THEN n ELSE Len(s))
    ELSE SubSeq(s, 1, IF Len(s) + n > 0 THEN Len(s) + n ELSE 0)

\* k in x, and x.get(k), of a dict
HasKey(x, k) == \E i \in DOMAIN x.keys : x.keys[i] = k
DictGet(x, k) ==
    IF HasKey(x, k)
    THEN x.elems[CHOOSE i \in DOMAIN x.keys : x.keys[i] = k]
    ELSE None

\* d[k] = v
DictSet(d, k, v) ==
    IF HasKey(d, k)
    THEN Dict(d.keys, [d.elems EXCEPT ![CHOOSE i \in DOMAIN d.keys : d.keys[i] = k] = v])
    ELSE Dict(Append(d.keys, k), Append(d.elems, v))

\* dict(pairs) of a list of (key, value) pairs: a later pair replaces an
\* earlier one of the same key
RECURSIVE DictOf(_, _)
DictOf(ks, vs) ==
    IF ks = <<>>
    THEN Dict(<<>>, <<>>)
    ELSE DictSet(DictOf(SubSeq(ks, 1, Len(ks) - 1), SubSeq(vs, 1, Len(vs) - 1)),
                 ks[Len(ks)], vs[Len(vs)])

\* truncate(x, max_els, recurse_levels).  The recursive call is
\* truncate(e, recurse_levels - 1): its second positional argument is
\* max_els, and its recurse_levels is the default 0.
RECURSIVE truncate(_, _, _)
truncate(x0, max_els, recurse_levels) ==
    LET is_tuple == x0.type = "tuple"
        x == IF is_tuple THEN List(x0.elems) ELSE x0
    IN  IF HasLen(x) /\ PyLen(x) > max_els
        THEN CASE x.type = "str" ->
                      Str(Slice(x.chars, max_els) \o Ellipsis.chars)
               [] x.type = "dict" ->
                      IF HasKey(x, "id") /\ HasKey(x, "titleNorm")
                      THEN DictSet(DictOf(<<"title", "artist", "album">>,
                                          <<DictGet(x, "title"), DictGet(x, "artist"),
                                            DictGet(x, "album")>>),
                                   "...", Ellipsis)
                      ELSE DictOf(Slice(x.keys, max_els) \o <<"...">>,
                                  Slice(x.elems, max_els) \o <<Ellipsis>>)
               [] OTHER ->
                      LET trunc1 == Slice(x.elems, max_els) \o <<Ellipsis>>
                          kept == SubSeq(trunc1, 1, Len(trunc1) - 1)
                          trunc2 ==
                              IF recurse_levels > 0
                              THEN [i \in DOMAIN kept |->
                                        truncate(kept[i], recurse_levels - 1, 0)]
                              ELSE trunc1
                      IN  IF is_tuple THEN Tuple(trunc2) ELSE List(trunc2)
        ELSE x

\* sequences over S of length at most n
SeqsUpTo(S, n) == UNION {[1 .. k -> S] : k \in 0 .. n}

\* the arguments truncate is called with
Chars == {"a", "b"}
Strs == {Str(cs) : cs \in SeqsUpTo(Chars, MaxLen)}
Elems == {IntV, Str(<<"a", "b", "a">>), List(<<IntV, IntV>>)}
Lists == {List(es) : es \in SeqsUpTo(Elems, MaxLen)}
Tuples == {Tuple(es) : es \in SeqsUpTo(Elems, MaxLen)}
Keys == {"id", "titleNorm", "title", "..."}
KeySeqs == {ks \in SeqsUpTo(Keys, MaxLen) : \A i, j \in DOMAIN ks : i # j => ks[i] # ks[j]}
Dicts == {Dict(ks, [i \in DOMAIN ks |-> IntV]) : ks \in KeySeqs}
Values == Strs \cup Lists \cup Tuples \cup Dicts \cup {IntV}

TruncateIdle ==
    /\ t_x = None
    /\ t_max_els = 0
    /\ t_recurse_levels = 0
    /\ t_pc = "idle"
    /\ t_result = None

\* a call of truncate with arguments bound
TruncateInit ==
    /\ t_x \in Values
    /\ t_max_els \in 0 .. MaxEls
    /\ t_recurse_levels \in 0 .. MaxRecurse
    /\ t_pc = "called"
    /\ t_result = None

\* the call runs and returns
Truncate ==
    /\ t_pc = "called"
    /\ t_result' = truncate(t_x, t_max_els, t_recurse_levels)
    /\ t_pc' = "returned"
    /\ UNCHANGED <<t_x, t_max_els, t_recurse_levels>>

\* ---------------------------------------------------------------- pb_set

\* A Python scalar: type is "int", "long", "float", "bool", "str" or
\* "NoneType"; n is the number of a number and 0 or 1 of a bool, s the text
\* of a str.
PInt(n) == [type |-> "int", n |-> n, s |-> ""]
PLong(n) == [type |-> "long", n |-> n, s |-> ""]
PFloat(n) == [type |-> "float", n |-> n, s |-> ""]
PBool(b) == [type |-> "bool", n |-> IF b THEN 1 ELSE 0, s |-> ""]
PStr(s) == [type |-> "str", n |-> 0, s |-> s]
PNone == [type |-> "NoneType", n |-> 0, s |-> ""]

\* cpp_type_to_python, built from _python_to_cpp_types; an enum or message
\* field has no entry
CppTypeToPython ==
    [cpp \in {"int32", "int64", "uint32", "uint64", "double", "float", "bool", "string"} |->
        CASE cpp \in {"int32", "int64", "uint32", "uint64"} -> "long"
          [] cpp \in {"double", "float"} -> "float"
          [] cpp = "bool" -> "bool"
          [] OTHER -> "str"]

\* the vals pb_set is called with
PbVals == {PInt(0), PInt(5), PInt(0 - 1), PBool(TRUE), PBool(FALSE),
           PStr(""), PStr("5"), PStr("x"), PNone}
PbCppTypes == {"int64", "uint32", "double", "bool", "string", "enum"}

\* str(n), and the number a str parses to with int(), long() or float()
NumText(n) ==
    CASE n = 0 -> "0"
      [] n = 1 -> "1"
      [] n = 5 -> "5"
      [] OTHER -> "-1"
IsNumText(s) == s \in {"0", "1", "5", "-1"}
TextNum(s) ==
    CASE s = "0" -> 0
      [] s = "1" -> 1
      [] s = "5" -> 5
      [] OTHER -> 0 - 1

Value(v) == [exc |-> "none", val |-> v]
Raise(x) == [exc |-> x, val |-> PNone]

\* t(val) for a builtin type t: the value built, or the exception raised
Coerce(t, val) ==
    CASE t \in {"int", "long", "float"} ->
              CASE val.type \in {"int", "long", "float", "bool"} ->
                        Value([type |-> t, n |-> val.n, s |-> ""])
                [] val.type = "str" ->
                        IF IsNumText(val.s)
                        THEN Value([type |-> t, n |-> TextNum(val.s), s |-> ""])
                        ELSE Raise("ValueError")
                [] OTHER -> Raise("TypeError")
      [] t = "bool" ->
              CASE val.type = "str" -> Value(PBool(val.s # ""))
                [] val.type = "NoneType" -> Value(PBool(FALSE))
                [] OTHER -> Value(PBool(val.n # 0))
      [] t = "str" ->
              CASE val.type = "str" -> Value(val)
                [] val.type = "bool" -> Value(PStr(IF val.n = 1 THEN "True" ELSE "False"))
                [] val.type = "NoneType" -> Value(PStr("None"))
                [] OTHER -> Value(PStr(NumText(val.n)))
      [] OTHER -> Raise("TypeError")

\* try_types = (type(val), proper_type)
TryTypes == <<pb_val.type, CppTypeToPython[pb_cpp_type]>>

\* How setattr(msg, field_name, v) can end.  The check is the protobuf
\* runtime's, not this file's: it stores v, or raises TypeError or
\* ValueError and stores nothing, or (a repeated field) raises
\* AttributeError and stores nothing.
SetattrOutcomes == {"ok", "TypeError", "ValueError", "AttributeError"}

Attempt(t, result) == [t |-> t, result |-> result]

PbIdle ==
    /\ pb_val = PNone
    /\ pb_cpp_type = "string"
    /\ pb_field = PNone
    /\ pb_entry = PNone
    /\ pb_pc = "idle"
    /\ pb_i = 0
    /\ pb_attempts = <<>>
    /\ pb_ret = "none"

\* pb_set(msg, field_name, val) is called
PbInit ==
    /\ pb_val \in PbVals
    /\ pb_cpp_type \in PbCppTypes
    /\ pb_field \in {PLong(0), PLong(5), PStr(""), PBool(TRUE)}
    /\ pb_entry = pb_field
    /\ pb_pc = "called"
    /\ pb_i = 0
    /\ pb_attempts = <<>>
    /\ pb_ret = "none"

\* "proper_type = cpp_type_to_python[field_desc.cpp_type]": KeyError for a
\* cpp_type with no entry; otherwise the loop over try_types starts
PbLookup ==
    /\ pb_pc = "called"
    /\ IF pb_cpp_type \in DOMAIN CppTypeToPython
         THEN pb_pc' = "loop" /\ pb_i' = 1
         ELSE pb_pc' = "raised" /\ pb_i' = pb_i
    /\ UNCHANGED <<pb_val, pb_cpp_type, pb_field, pb_entry, pb_attempts, pb_ret>>

\* the loop body without its "break": after an assignment that stuck the
\* loop goes on to the next type
PbAttempt_nobreak ==
    /\ pb_pc = "loop"
    /\ pb_i <= Len(TryTypes)
    /\ LET t == TryTypes[pb_i]
           made == Coerce(t, pb_val)
       IN  IF made.exc # "none"
           THEN /\ pb_attempts' = Append(pb_attempts, Attempt(t, made.exc))
                /\ pb_i' = pb_i + 1
                /\ UNCHANGED <<pb_field, pb_pc, pb_ret>>
           ELSE \E r \in SetattrOutcomes :
                    /\ pb_attempts' = Append(pb_attempts, Attempt(t, r))
                    /\ CASE r = "ok" ->
                                /\ pb_field' = made.val
                                /\ pb_i' = pb_i + 1
                                /\ UNCHANGED <<pb_pc, pb_ret>>
                         [] r \in {"TypeError", "ValueError"} ->
                                /\ pb_i' = pb_i + 1
                                /\ UNCHANGED <<pb_field, pb_pc, pb_ret>>
                         [] OTHER ->
                                /\ pb_pc' = "raised"
                                /\ UNCHANGED <<pb_field, pb_i, pb_ret>>
    /\ UNCHANGED <<pb_val, pb_cpp_type, pb_entry>>

\* one pass of "for t in try_types": setattr(msg, field_name, t(val)); on
\* success "break", which leads to "return True"; TypeError and ValueError
\* are caught and the loop goes on; any other exception leaves pb_set
PbAttempt ==
    /\ pb_pc = "loop"
    /\ pb_i <= Len(TryTypes)
    /\ LET t == TryTypes[pb_i]
           made == Coerce(t, pb_val)
       IN  IF made.exc # "none"
           THEN /\ pb_attempts' = Append(pb_attempts, Attempt(t, made.exc))
                /\ pb_i' = pb_i + 1
                /\ UNCHANGED <<pb_field, pb_pc, pb_ret>>
           ELSE \E r \in SetattrOutcomes :
                    /\ pb_attempts' = Append(pb_attempts, Attempt(t, r))
                    /\ CASE r = "ok" ->
                                /\ pb_field' = made.val
                                /\ pb_pc' = "returned"
                                /\ pb_ret' = "True"
                                /\ UNCHANGED pb_i
                         [] r \in {"TypeError", "ValueError"} ->
                                /\ pb_i' = pb_i + 1
                                /\ UNCHANGED <<pb_field, pb_pc, pb_ret>>
                         [] OTHER ->
                                /\ pb_pc' = "raised"
                                /\ UNCHANGED <<pb_field, pb_i, pb_ret>>
    /\ UNCHANGED <<pb_val, pb_cpp_type, pb_entry>>

\* the "else" of the for loop: "return False  # no assignments stuck"
PbExhausted ==
    /\ pb_pc = "loop"
    /\ pb_i > Len(TryTypes)
    /\ pb_pc' = "returned"
    /\ pb_ret' = "False"
    /\ UNCHANGED <<pb_val, pb_cpp_type, pb_field, pb_entry, pb_i, pb_attempts>>

\* ---------------------------------------------------------- retry: helpers

\* Exception kinds the wrapped function raises.  CallFailure and
\* AssertionError are retry()'s defaults; KeyError is in no retry_exception.
ErrorKinds == {"AssertionError", "CallFailure", "KeyError"}

\* retry_exception = (AssertionError, CallFailure) when None is given
DefaultRetryException == {"AssertionError", "CallFailure"}

NoError == [kind |-> "none", inv |-> 0]
NoOutcome == [status |-> "none", kind |-> "none", inv |-> 0]

\* The object the inv-th invocation of f returned (kind "ok") or raised.
Produced(kind, inv) == [kind |-> kind, inv |-> inv]

InvokeEvent(kind, inv) == [ev |-> "invoke", kind |-> kind, inv |-> inv, secs |-> 0]
LogEvent(err, secs) == [ev |-> "log", kind |-> err.kind, inv |-> err.inv, secs |-> secs]
SleepEvent(secs) == [ev |-> "sleep", kind |-> "none", inv |-> 0, secs |-> secs]

Count(s, what) == Cardinality({i \in DOMAIN s : s[i].ev = what})
Invocations(c) == Count(events[c], "invoke")

\* "while mtries > 1"
LoopCond_off(m) == m > 0
LoopCond(m) == m > 1

\* "except retry_exception as e": does the clause catch an error of this kind
Catches_all(kind) == TRUE
Catches(kind) == kind \in retry_exception

\* "mtries -= 1"
NextTries_two(m) == m - 2
NextTries(m) == m - 1

\* "mdelay *= backoff"
NextDelay_add(d, b) == d + b
NextDelay(d, b) == d * b

\* the delay reported by logger.info(..., e, mdelay)
LoggedDelay_next(c) == mdelay[c] * backoff
LoggedDelay(c) == mdelay[c]

\* ---------------------------------------------------------- retry: actions

\* retry_wrapper is entered: "mtries, mdelay = tries, delay"
Call(c) ==
    /\ pc[c] \in {"idle", "done"}
    /\ calls[c] < MaxCalls
    /\ calls' = [calls EXCEPT ![c] = @ + 1]
    /\ mtries' = [mtries EXCEPT ![c] = tries]
    /\ mdelay' = [mdelay EXCEPT ![c] = delay]
    /\ e' = [e EXCEPT ![c] = NoError]
    /\ events' = [events EXCEPT ![c] = <<>>]
    /\ outcome' = [outcome EXCEPT ![c] = NoOutcome]
    /\ pc' = [pc EXCEPT ![c] = "while"]
    /\ UNCHANGED <<truncate_vars, pb_vars, tries, delay, backoff, retry_exception, f_outcomes, threads>>

\* the loop written as "for _ in range(tries)": with no try left the call
\* returns without ever invoking f
WhileTest_range(c) ==
    /\ pc[c] = "while"
    /\ IF mtries[c] > 1
         THEN pc' = [pc EXCEPT ![c] = "try"] /\ outcome' = outcome
         ELSE IF mtries[c] = 1
         THEN pc' = [pc EXCEPT ![c] = "final"] /\ outcome' = outcome
         ELSE /\ pc' = [pc EXCEPT ![c] = "done"]
              /\ outcome' = [outcome EXCEPT ![c] =
                               [status |-> "returned", kind |-> "none", inv |-> 0]]
    /\ UNCHANGED <<truncate_vars, pb_vars, tries, delay, backoff, retry_exception, f_outcomes, threads,
                   mtries, mdelay, e, events, calls>>

\* "while mtries > 1:" ; when false, control reaches the final "return f(...)"
WhileTest(c) ==
    /\ pc[c] = "while"
    /\ pc' = [pc EXCEPT ![c] = IF LoopCond(mtries[c]) THEN "try" ELSE "final"]
    /\ UNCHANGED <<truncate_vars, pb_vars, tries, delay, backoff, retry_exception, f_outcomes, threads,
                   mtries, mdelay, e, events, outcome, calls>>

\* the try block with "break" where the code has "return": a success leaves
\* the loop and runs into the final "return f(...)"
TryInvoke_break(c) ==
    /\ pc[c] = "try"
    /\ \E kind \in f_outcomes :
         LET inv == Invocations(c) + 1
             got == Produced(kind, inv)
         IN  /\ events' = [events EXCEPT ![c] = Append(@, InvokeEvent(kind, inv))]
             /\ IF kind = "ok"
                  THEN /\ pc' = [pc EXCEPT ![c] = "final"]
                       /\ UNCHANGED <<e, outcome>>
                  ELSE IF kind \in retry_exception
                  THEN /\ e' = [e EXCEPT ![c] = got]
                       /\ pc' = [pc EXCEPT ![c] = "log"]
                       /\ outcome' = outcome
                  ELSE /\ outcome' = [outcome EXCEPT ![c] =
                                        [status |-> "raised", kind |-> got.kind, inv |-> got.inv]]
                       /\ pc' = [pc EXCEPT ![c] = "done"]
                       /\ e' = e
    /\ UNCHANGED <<truncate_vars, pb_vars, tries, delay, backoff, retry_exception, f_outcomes, threads,
                   mtries, mdelay, calls>>

\* "try: return f(*args, **kwargs)  except retry_exception as e:"
TryInvoke(c) ==
    /\ pc[c] = "try"
    /\ \E kind \in f_outcomes :
         LET inv == Invocations(c) + 1
             got == Produced(kind, inv)
         IN  /\ events' = [events EXCEPT ![c] = Append(@, InvokeEvent(kind, inv))]
             /\ IF kind = "ok"
                  THEN /\ outcome' = [outcome EXCEPT ![c] =
                                        [status |-> "returned", kind |-> got.kind, inv |-> got.inv]]
                       /\ pc' = [pc EXCEPT ![c] = "done"]
                       /\ e' = e
                  ELSE IF Catches(kind)
                  THEN /\ e' = [e EXCEPT ![c] = got]
                       /\ pc' = [pc EXCEPT ![c] = "log"]
                       /\ outcome' = outcome
                  ELSE /\ outcome' = [outcome EXCEPT ![c] =
                                        [status |-> "raised", kind |-> got.kind, inv |-> got.inv]]
                       /\ pc' = [pc EXCEPT ![c] = "done"]
                       /\ e' = e
    /\ UNCHANGED <<truncate_vars, pb_vars, tries, delay, backoff, retry_exception, f_outcomes, threads,
                   mtries, mdelay, calls>>

\* logger.info("%s, retrying in %s seconds...", e, mdelay)
LogRetry(c) ==
    /\ pc[c] = "log"
    /\ events' = [events EXCEPT ![c] = Append(@, LogEvent(e[c], LoggedDelay(c)))]
    /\ pc' = [pc EXCEPT ![c] = "sleep"]
    /\ UNCHANGED <<truncate_vars, pb_vars, tries, delay, backoff, retry_exception, f_outcomes, threads,
                   mtries, mdelay, e, outcome, calls>>

\* time.sleep(mdelay)
Sleep(c) ==
    /\ pc[c] = "sleep"
    /\ events' = [events EXCEPT ![c] = Append(@, SleepEvent(mdelay[c]))]
    /\ pc' = [pc EXCEPT ![c] = "update"]
    /\ UNCHANGED <<truncate_vars, pb_vars, tries, delay, backoff, retry_exception, f_outcomes, threads,
                   mtries, mdelay, e, outcome, calls>>

\* the countdown kept in one place for all calls of the wrapped function
\* instead of in locals of the call
Update_shared(c) ==
    /\ pc[c] = "update"
    /\ mtries' = [d \in threads |-> mtries[d] - 1]
    /\ mdelay' = [d \in threads |-> mdelay[d] * backoff]
    /\ pc' = [pc EXCEPT ![c] = "while"]
    /\ UNCHANGED <<truncate_vars, pb_vars, tries, delay, backoff, retry_exception, f_outcomes, threads,
                   e, events, outcome, calls>>

\* "mtries -= 1 ; mdelay *= backoff", then back to the loop test
Update(c) ==
    /\ pc[c] = "update"
    /\ mtries' = [mtries EXCEPT ![c] = NextTries(@)]
    /\ mdelay' = [mdelay EXCEPT ![c] = NextDelay(@, backoff)]
    /\ pc' = [pc EXCEPT ![c] = "while"]
    /\ UNCHANGED <<truncate_vars, pb_vars, tries, delay, backoff, retry_exception, f_outcomes, threads,
                   e, events, outcome, calls>>

\* the last line, "return f(*args, **kwargs)", outside any try
FinalInvoke(c) ==
    /\ pc[c] = "final"
    /\ \E kind \in f_outcomes :
         LET inv == Invocations(c) + 1
             got == Produced(kind, inv)
         IN  /\ events' = [events EXCEPT ![c] = Append(@, InvokeEvent(kind, inv))]
             /\ outcome' = [outcome EXCEPT ![c] =
                              [status |-> IF kind = "ok" THEN "returned" ELSE "raised",
                               kind |-> got.kind, inv |-> got.inv]]
             /\ pc' = [pc EXCEPT ![c] = "done"]
    /\ UNCHANGED <<truncate_vars, pb_vars, tries, delay, backoff, retry_exception, f_outcomes, threads,
                   mtries, mdelay, e, calls>>

\* ------------------------------------------------------ retry: specifications

AllOutcomes == {"ok"} \cup ErrorKinds

RetryInit(ths, delays, backoffs, retryOn, outs) ==
    /\ tries \in (0 - NonPosTries) .. MaxTries
    /\ delay \in delays
    /\ backoff \in backoffs
    /\ retry_exception \in retryOn
    /\ f_outcomes = outs
    /\ threads = ths
    /\ pc = [c \in ths |-> "idle"]
    /\ mtries = [c \in ths |-> 0]
    /\ mdelay = [c \in ths |-> 0]
    /\ e = [c \in ths |-> NoError]
    /\ events = [c \in ths |-> <<>>]
    /\ outcome = [c \in ths |-> NoOutcome]
    /\ calls = [c \in ths |-> 0]

\* no function is wrapped and nobody calls
RetryIdle ==
    /\ tries = 1 /\ delay = 0 /\ backoff = 1
    /\ retry_exception = DefaultRetryException
    /\ f_outcomes = {}
    /\ threads = {}
    /\ pc = <<>> /\ mtries = <<>> /\ mdelay = <<>> /\ e = <<>>
    /\ events = <<>> /\ outcome = <<>> /\ calls = <<>>

\* one caller, calling the wrapped function MaxCalls times in a row; f may
\* return or raise any of ErrorKinds at each invocation
Init ==
    /\ RetryInit({1}, 0 .. MaxDelay, 1 .. MaxBackoff,
                 {DefaultRetryException, {"CallFailure"}}, AllOutcomes)
    /\ TruncateIdle
    /\ PbIdle

Step(c) ==
    \/ WhileTest(c)
    \/ TryInvoke(c)
    \/ LogRetry(c)
    \/ Sleep(c)
    \/ Update(c)
    \/ FinalInvoke(c)

Next ==
    \/ \E c \in threads : Call(c)
    \/ \E c \in threads : WhileTest(c)
    \/ \E c \in threads : TryInvoke(c)
    \/ \E c \in threads : LogRetry(c)
    \/ \E c \in threads : Sleep(c)
    \/ \E c \in threads : Update(c)
    \/ \E c \in threads : FinalInvoke(c)

Spec == Init /\ [][Next]_vars

\* a call that was started keeps running, and every invocation of f and
\* every sleep finishes
FairSpec == Spec /\ WF_vars(Step(1))

\* NumThreads callers run the same wrapped function at once, their steps
\* interleaved; retry() was given the largest delay and backoff and the
\* default retry_exception, and f returns or raises CallFailure
ConcInit ==
    /\ RetryInit(1 .. NumThreads, {MaxDelay}, {MaxBackoff},
                 {DefaultRetryException}, {"ok", "CallFailure"})
    /\ TruncateIdle
    /\ PbIdle

ConcSpec == ConcInit /\ [][Next]_vars

\* ------------------------------------------------------------ retry: claims

OfKind(s, what) == SelectSeq(s, LAMBDA x : x.ev = what)
Invokes(c) == OfKind(events[c], "invoke")
Logs(c) == OfKind(events[c], "log")
Sleeps(c) == OfKind(events[c], "sleep")
Prefix(c, j) == SubSeq(events[c], 1, j)

RECURSIVE Pow(_, _)
Pow(b, n) == IF n <= 0 THEN 1 ELSE b * Pow(b, n - 1)

RECURSIVE SumSecs(_)
SumSecs(s) == IF s = <<>> THEN 0 ELSE Head(s).secs + SumSecs(Tail(s))

Recoverable(kind) == kind \in retry_exception
AllRecoverable(s) == \A i \in DOMAIN s : Recoverable(s[i].kind)
Raised(x) == [status |-> "raised", kind |-> x.kind, inv |-> x.inv]
Returned(x) == [status |-> "returned", kind |-> x.kind, inv |-> x.inv]

\* C1: with tries = N >= 1, a finished call all of whose invocations of f
\* failed with a recoverable error invoked f exactly N times, and what the
\* caller got is the very error the N-th invocation raised.
C1_AlwaysFailingInvokedNTimes ==
    \A c \in threads :
        (pc[c] = "done" /\ tries >= 1 /\ AllRecoverable(Invokes(c)))
            => /\ Len(Invokes(c)) = tries
               /\ Invokes(c)[tries].inv = tries
               /\ outcome[c] = Raised(Invokes(c)[tries])

C1_Witness ==
    /\ tries = 3
    /\ pc[1] = "done"
    /\ Len(Invokes(1)) = 3
    /\ AllRecoverable(Invokes(1))
    /\ outcome[1] = [status |-> "raised", kind |-> "CallFailure", inv |-> 3]

\* C2: an invocation of f that succeeds is the k-th after k-1 recoverable
\* failures, k is at most max(1, tries), it is the last thing the call does
\* (no invocation, wait or log entry follows it), and its result is what the
\* call returns.
C2_SuccessAtKReturnsAtOnce ==
    \A c \in threads :
        \A j \in DOMAIN events[c] :
            (events[c][j].ev = "invoke" /\ events[c][j].kind = "ok")
                => LET k == Len(OfKind(Prefix(c, j), "invoke"))
                   IN  /\ j = Len(events[c])
                       /\ pc[c] = "done"
                       /\ events[c][j].inv = k
                       /\ Len(Invokes(c)) = k
                       /\ tries >= 1 => k <= tries
                       /\ AllRecoverable(SubSeq(Invokes(c), 1, k - 1))
                       /\ outcome[c] = Returned(events[c][j])

C2_Witness ==
    /\ tries = 3
    /\ pc[1] = "done"
    /\ Len(Invokes(1)) = 2
    /\ Invokes(1)[1].kind = "CallFailure"
    /\ outcome[1] = [status |-> "returned", kind |-> "ok", inv |-> 2]

\* C3: an invocation of f that fails with an error kind outside
\* retry_exception is the last thing the call does, and that error is what
\* the caller gets; at the first attempt this makes one invocation whatever
\* tries is.
C3_NonRecoverablePropagatesAtOnce ==
    \A c \in threads :
        \A j \in DOMAIN events[c] :
            (/\ events[c][j].ev = "invoke"
             /\ events[c][j].kind # "ok"
             /\ ~Recoverable(events[c][j].kind))
                => /\ j = Len(events[c])
                   /\ pc[c] = "done"
                   /\ Len(Invokes(c)) = events[c][j].inv
                   /\ outcome[c] = Raised(events[c][j])
                   /\ j = 1 => Len(Invokes(c)) = 1

C3_Witness ==
    /\ tries = 3
    /\ pc[1] = "done"
    /\ Len(Invokes(1)) = 2
    /\ Invokes(1)[1].kind = "CallFailure"
    /\ outcome[1] = [status |-> "raised", kind |-> "KeyError", inv |-> 2]

\* C4: the i-th wait of a call comes after exactly i invocations, i is at
\* most tries - 1, and it lasts delay * backoff^(i-1); with delay 0 every
\* wait is 0, and with tries 3, delay 1, backoff 2 two waits are 1 then 2,
\* 3 in all.
C4_DelaySequence ==
    \A c \in threads :
        /\ \A j \in DOMAIN events[c] :
               events[c][j].ev = "sleep"
                   => LET i == Len(OfKind(Prefix(c, j), "sleep"))
                      IN  /\ events[c][j].secs = delay * Pow(backoff, i - 1)
                          /\ Len(OfKind(Prefix(c, j), "invoke")) = i
                          /\ i <= tries - 1
        /\ delay = 0 => \A i \in DOMAIN Sleeps(c) : Sleeps(c)[i].secs = 0
        /\ (tries = 3 /\ delay = 1 /\ backoff = 2 /\ Len(Sleeps(c)) = 2)
               => /\ Sleeps(c)[1].secs = 1
                  /\ Sleeps(c)[2].secs = 2
                  /\ SumSecs(Sleeps(c)) = 3

C4_Witness ==
    /\ tries = 3 /\ delay = 1 /\ backoff = 2
    /\ pc[1] = "done"
    /\ Len(Invokes(1)) = 3
    /\ outcome[1].status = "returned"
    /\ SumSecs(Sleeps(1)) = 3

\* C5: a retry log entry comes right after an invocation that failed with a
\* recoverable error and records that error; the wait that comes right
\* after it lasts the delay the entry records, and every wait comes right
\* after a log entry.  A finished call ends with an invocation, and made as
\* many log entries as waits, one fewer than its invocations.
C5_OneLogEntryPerRetry ==
    \A c \in threads :
        /\ \A j \in DOMAIN events[c] :
               /\ events[c][j].ev = "log"
                      => /\ j > 1
                         /\ events[c][j - 1].ev = "invoke"
                         /\ Recoverable(events[c][j - 1].kind)
                         /\ events[c][j].kind = events[c][j - 1].kind
                         /\ events[c][j].inv = events[c][j - 1].inv
                         /\ j < Len(events[c])
                                => /\ events[c][j + 1].ev = "sleep"
                                   /\ events[c][j + 1].secs = events[c][j].secs
               /\ events[c][j].ev = "sleep"
                      => /\ j > 1
                         /\ events[c][j - 1].ev = "log"
               /\ (events[c][j].ev = "invoke" /\ j < Len(events[c]))
                      => events[c][j + 1].ev = "log"
        /\ pc[c] = "done"
               => /\ events[c][Len(events[c])].ev = "invoke"
                  /\ Len(Logs(c)) = Len(Sleeps(c))
                  /\ Len(Logs(c)) = Len(Invokes(c)) - 1

C5_Witness ==
    /\ tries = 3 /\ delay = 1 /\ backoff = 2
    /\ pc[1] = "done"
    /\ outcome[1].status = "raised"
    /\ AllRecoverable(Invokes(1))
    /\ Len(Invokes(1)) = 3
    /\ Len(Logs(1)) = 2
    /\ Logs(1)[2].secs = 2

\* C6: with tries = 1 a call never waits and never writes a retry log
\* entry, invokes f at most once, and when finished has invoked it once and
\* handed that invocation's result or error to its caller.
C6_SingleTry ==
    \A c \in threads :
        tries = 1
            => /\ Len(Sleeps(c)) = 0
               /\ Len(Logs(c)) = 0
               /\ Len(Invokes(c)) <= 1
               /\ pc[c] = "done"
                      => /\ Len(Invokes(c)) = 1
                         /\ outcome[c] =
                                IF Invokes(c)[1].kind = "ok"
                                THEN Returned(Invokes(c)[1])
                                ELSE Raised(Invokes(c)[1])

C6_Witness ==
    /\ tries = 1
    /\ pc[1] = "done"
    /\ calls[1] = 2
    /\ outcome[1] = [status |-> "raised", kind |-> "CallFailure", inv |-> 1]

\* updates ("mtries -= 1 ; mdelay *= backoff") the current call of c has done
Updates(c) == Len(Sleeps(c)) - (IF pc[c] = "update" THEN 1 ELSE 0)

\* C7: no step changes tries, delay, backoff or retry_exception; a call that
\* starts, whatever calls came before or run beside it, starts with
\* mtries = tries and mdelay = delay; a step of one caller leaves the
\* countdown of every other caller as it was; and the countdown of a call is
\* the configuration less that call's own retries only.
C7_CountdownLocalToCall ==
    [][ /\ <<tries, delay, backoff, retry_exception>>' =
               <<tries, delay, backoff, retry_exception>>
        /\ \A c \in threads :
               (pc[c] \in {"idle", "done"} /\ pc'[c] = "while")
                   => (mtries'[c] = tries /\ mdelay'[c] = delay)
        /\ \A c, d \in threads :
               (c # d /\ pc'[c] # pc[c])
                   => /\ mtries'[d] = mtries[d]
                      /\ mdelay'[d] = mdelay[d]
                      /\ events'[d] = events[d]
        /\ \A c \in threads :
               pc'[c] # "idle"
                   => /\ mtries'[c] = tries - (Updates(c))'
                      /\ mdelay'[c] = delay * Pow(backoff, (Updates(c))')
      ]_vars

C7_Witness ==
    /\ threads = 1 .. NumThreads
    /\ tries = 3
    /\ pc[1] = "try" /\ mtries[1] = 2 /\ mdelay[1] > delay
    /\ calls[2] = 2 /\ pc[2] = "while"
    /\ mtries[2] = tries /\ mdelay[2] = delay

Max(a, b) == IF a >= b THEN a ELSE b

\* C10: a call invokes f at most max(1, tries) times and a finished call has
\* invoked it at least once; with tries <= 0 it invokes f at most once,
\* never waits or logs, and hands the result or error of that one invocation
\* to its caller; and every call that was started finishes.
C10_OneInvocationAtLeastAndFinishes ==
    /\ [](\A c \in threads :
              /\ Len(Invokes(c)) <= Max(1, tries)
              /\ pc[c] = "done" => Len(Invokes(c)) >= 1
              /\ tries <= 0
                     => /\ Len(Invokes(c)) <= 1
                        /\ Len(Sleeps(c)) = 0
                        /\ Len(Logs(c)) = 0
                        /\ pc[c] = "done"
                               => outcome[c] =
                                      IF Invokes(c)[1].kind = "ok"
                                      THEN Returned(Invokes(c)[1])
                                      ELSE Raised(Invokes(c)[1]))
    /\ (pc[1] \notin {"idle", "done"}) ~> (pc[1] = "done")

C10_Witness ==
    /\ tries < 0
    /\ pc[1] = "done"
    /\ Len(events[1]) = 1
    /\ outcome[1] = [status |-> "raised", kind |-> "CallFailure", inv |-> 1]

\* ------------------------------------------------------- truncate: claims

TruncateNext == Truncate /\ UNCHANGED <<retry_vars, pb_vars>>

TruncateSpecInit == TruncateInit /\ RetryIdle /\ PbIdle

TruncateSpec == TruncateSpecInit /\ [][TruncateNext]_vars

\* C8: what truncate returns has the type of its argument and is not longer
\* than its argument.
C8_SameTypeNotLonger ==
    t_pc = "returned"
        => /\ t_result.type = t_x.type
           /\ PyLen(t_result) <= PyLen(t_x)

\* --------------------------------------------------------- pb_set: claims

PbNext ==
    \/ PbLookup /\ UNCHANGED <<retry_vars, truncate_vars>>
    \/ PbAttempt /\ UNCHANGED <<retry_vars, truncate_vars>>
    \/ PbExhausted /\ UNCHANGED <<retry_vars, truncate_vars>>

PbSpecInit == PbInit /\ RetryIdle /\ TruncateIdle

PbSpec == PbSpecInit /\ [][PbNext]_vars

Stuck(i) == pb_attempts[i].result = "ok"

\* C9: the types tried are type(val) and then the field's proper type, the
\* second only after the first failed, and nothing is tried after an
\* assignment that stuck.  pb_set returns True exactly when an assignment
\* stuck, and the field then holds val coerced to the type that stuck; when
\* it returns False both types were tried and the field holds what it held
\* when pb_set was called.
C9_TrueIffAnAssignmentStuck ==
    /\ Len(pb_attempts) <= 2
    /\ \A i \in DOMAIN pb_attempts :
           /\ pb_attempts[i].t = TryTypes[i]
           /\ Stuck(i) => i = Len(pb_attempts)
    /\ (\A i \in DOMAIN pb_attempts : ~Stuck(i)) => pb_field = pb_entry
    /\ pb_pc = "returned"
           => /\ pb_ret \in {"True", "False"}
              /\ pb_ret = "True" <=> \E i \in DOMAIN pb_attempts : Stuck(i)
              /\ pb_ret = "True"
                     => pb_field = Coerce(TryTypes[Len(pb_attempts)], pb_val).val
              /\ pb_ret = "False"
                     => /\ Len(pb_attempts) = 2
                        /\ pb_field = pb_entry

\* val = 5 for a string field: int(5) is refused with TypeError, str(5)
\* sticks
C9_Witness ==
    /\ pb_pc = "returned"
    /\ pb_ret = "True"
    /\ pb_val = PInt(5)
    /\ pb_cpp_type = "string"
    /\ pb_attempts = <<Attempt("int", "TypeError"), Attempt("str", "ok")>>
    /\ pb_field = PStr("5")
    /\ pb_entry = PStr("")

====
